---- MODULE Spec2Model ----
(***************************************************************************)
(* ADDMS.  The parts of the system, each with its own specification:       *)
(*  - the dispatch pipeline (Spec): the update_status and assign_drone     *)
(*    views of DeliveryOrderViewSet and the Celery tasks                   *)
(*    assign_drone_to_delivery and optimize_route_and_predict_eta, run by  *)
(*    parallel workers against one database.  Every database operation of  *)
(*    a handler is one step, so that handlers interleave exactly where the *)
(*    code reads and writes rows;                                          *)
(*  - the telemetry pipeline (TelemetrySpec): TelemetryDataViewSet.create, *)
(*    process_live_telemetry, the battery endpoints and                    *)
(*    simulate_battery_drain;                                              *)
(*  - the route optimizer: RouteOptimizer.optimize_route with its cache    *)
(*    and the no-fly zone table (PlannerSpec), and the A* search of        *)
(*    _astar_route with the post-processing of optimize_route, run on a    *)
(*    given obstacle list (SearchSpec);                                    *)
(*  - the orders API with DELETE (OrdersSpec);                             *)
(*  - the tracking WebSocket: DroneTrackingConsumer and the channel layer  *)
(*    groups, with the telemetry tasks that broadcast (TrackingSpec);      *)
(*  - the ETA predictor's automatic retraining (PredictorSpec).            *)
(***************************************************************************)
EXTENDS Integers, Sequences, FiniteSets, TLC

\* ---------------------------------------------------------------- bounds
MaxStatusReqs == 1    \* update_status requests received
MaxAssignReqs == 2    \* assign_drone requests received
MaxTasks == 3         \* Celery task messages ever sent
MaxOutages == 1       \* database outages
MaxEvents == 3        \* requests and outages altogether
WorkerConcurrency == 1  \* tasks the worker pool executes at the same time
MaxIngests == 2       \* telemetry payloads received
IngestConcurrency == 2  \* telemetry tasks the worker pool executes at the same time
MaxFleetOps == 1      \* drone requests and battery simulation runs
MaxZoneWrites == 2    \* no-fly zone writes
MaxRouteCalls == 2    \* optimize_route calls
MaxSocketMsgs == 2    \* frames received from WebSocket clients
MaxHistorical == 101  \* add_historical_delivery calls
MaxDay == 7           \* days that pass
GridLat == 40         \* the search window: latitudes 0..GridLat
GridLng == 60         \* the search window: longitudes 0..GridLng

\* ------------------------------------------------------ program constants
max_retries == 3           \* @shared_task(bind=True, max_retries=3)
retry_countdown == 60      \* self.retry(exc=exc, countdown=60)
MinBattery == 20           \* available(): battery_level__gte=20
FullBattery == 100         \* Drone.battery_level default
\* RouteOptimizer.  Latitudes and longitudes are counted in units of 0.0001
\* degrees (a tenth of a grid step), altitudes in metres, costs in decimetres.
grid_resolution == 10      \* self.grid_resolution = 0.001
goal_tolerance == 10       \* _is_goal(..., tolerance=0.001)
safety_buffer == 100       \* self.safety_buffer = 100.0 (metres)
offset_distance == 100     \* offset_distance = 0.01
altitude_step == 20        \* self.altitude_step = 20.0
max_altitude == 400        \* self.max_altitude = 400.0
min_altitude == 50         \* self.min_altitude = 50.0
min_terrain_clearance == 30  \* self.min_terrain_clearance = 30.0
max_iterations == 10000    \* max_iterations = 10000

Orders == {1, 2}
Drones == {"d1", "d2"}
NoDrone == "none"          \* DeliveryOrder.drone is NULL
NoTime == <<>>             \* a NULL DateTimeField
NoPosition == "null"       \* a NULL PointField, a null latitude/longitude

\* DeliveryOrder.Status.choices
OrderStatuses ==
  {"pending", "assigned", "in_transit", "delivering", "delivered", "failed", "cancelled"}

\* The concrete fields the DeliveryOrder model class declares (besides its
\* primary key).  estimated_duration_minutes and total_cost are not among them.
OrderModelFields ==
  {"customer", "pickup_address", "pickup_location", "delivery_address",
   "delivery_location", "package", "drone", "status", "requested_at",
   "assigned_at", "picked_up_at", "delivered_at", "estimated_eta",
   "actual_delivery_time", "priority", "notes"}

\* Values of request.data['status'] that the clients send.
StatusInputs == {"pending", "assigned", "delivered", "bogus"}

\* timezone.now() is strictly increasing; a stored timestamp is represented by
\* the call that produced it: the request, or the task and its attempt.
ReqStamp(r) == <<"request", r, 0>>
TaskStamp(t, k) == <<"task", t, k>>

VARIABLES
  orders,         \* delivery_order rows
  drones,         \* drone rows
  history,        \* order_status_history rows of each order, oldest first
  routes,         \* route row of each order (OneToOne), or absent
  waypoints,      \* waypoint rows of each order's route
  notifications,  \* notify_customer_event messages sent, per order
  tasks,          \* Celery task messages and the position of their execution
  reqs,           \* update_status requests and their position
  assign_reqs,    \* number of assign_drone requests served
  db_up,          \* the database accepts queries
  outages,        \* number of database outages so far
  telemetry_data, \* telemetry_data rows of each drone, oldest first
  status_streams, \* drone_status_stream row of each drone (OneToOne), or absent
  group_sends,    \* channel layer: the events sent to each group, oldest first
  ingests,        \* process_live_telemetry messages and their position
  fleet_ops,      \* drone requests and battery simulation runs so far
  zones,          \* no_fly_zones rows
  route_cache,    \* the cache entries route_<key> of the route optimizer
  search,         \* the optimize_route call in progress and its A* search
  zone_writes,    \* no-fly zone writes so far
  route_calls,    \* optimize_route calls so far
  sockets,        \* WebSocket connections to ws/tracking/ and their state
  group_members,  \* channel layer: the channels of each group
  channel_queue,  \* channel layer: events waiting for each channel's consumer
  client_inbox,   \* the frames each connection's client has been sent
  socket_msgs,    \* frames received from clients so far
  deleted_orders, \* the orders whose delivery_order row has been deleted
  eta_predictor,  \* the ETAPredictor instance of the worker process
  today           \* datetime.now(), in whole days

\* The tables and queues of the telemetry pipeline.
telemetry_vars == <<telemetry_data, status_streams, group_sends, ingests, fleet_ops>>

\* The zone table, the route cache and the route optimizer.
planner_vars == <<zones, route_cache, search, zone_writes, route_calls>>

\* The WebSocket connections and the groups of the channel layer.
tracking_vars == <<sockets, group_members, channel_queue, client_inbox, socket_msgs>>

\* The ETA predictor and the clock it reads.
predictor_vars == <<eta_predictor, today>>

\* The tables and queues of the dispatch pipeline, the drone table apart.
dispatch_vars == <<orders, history, routes, waypoints, notifications, tasks,
                   reqs, assign_reqs, db_up, outages, deleted_orders>>

vars == <<orders, drones, history, routes, waypoints, notifications, tasks,
          reqs, assign_reqs, db_up, outages, telemetry_vars, planner_vars, tracking_vars,
          deleted_orders, predictor_vars>>

\* What a task holds of the order and drone instances it loaded.
NoSnap == [status |-> "pending", picked_up_at |-> NoTime, drone |-> NoDrone,
           drone_status |-> "idle", drone_is_active |-> FALSE,
           drone_battery_level |-> 0]

\* A task message: retries is request.retries, runs counts its executions.
NoTask == [kind |-> "none", order |-> 1, drone |-> NoDrone, retries |-> 0,
           runs |-> 0, pc |-> "none", countdown |-> 0, snap |-> NoSnap, idx |-> 0]

NewOrder == [status |-> "pending", drone |-> NoDrone, assigned_at |-> NoTime,
             picked_up_at |-> NoTime, delivered_at |-> NoTime,
             actual_delivery_time |-> NoTime, estimated_eta |-> NoTime,
             pickup_location |-> TRUE]

NoReq == [order |-> 1, new_status |-> "pending", pc |-> "none",
          snap |-> NewOrder, resp |-> "none"]

NoRoute == [exists |-> FALSE, optimization_method |-> "none", estimated_eta |-> NoTime]

\* Channel layer groups: drone_updates and drone_{id}.
DroneGroup(d) == "drone_" \o d
Groups == {"drone_updates"} \cup {DroneGroup(d) : d \in Drones}

\* battery_level values that clients and drones send.
BatteryInputs == {0 - 5, 50, 150}

\* TelemetryData.timestamp (auto_now_add) of the row a task inserts, and the
\* timezone.now() of that task.
IngestStamp(i) == <<"ingest", i, 0>>

NoStream == [exists |-> FALSE, is_online |-> FALSE, last_heartbeat |-> NoTime]

\* A process_live_telemetry message: the payload the view built, the drone
\* instance the task loaded (snap) and the position it computed.
NoIngest == [drone |-> "d1", latlng |-> NoPosition, battery_level |-> 0,
             is_in_flight |-> FALSE, pc |-> "none", position |-> NoPosition,
             snap |-> [status |-> "idle", is_active |-> FALSE, battery_level |-> 0,
                       current_position |-> NoPosition, last_heartbeat |-> NoTime]]

\* ------------------------------------------------------- tracking sockets
Conns == {"c1", "c2"}      \* connections, each with its channel name
Users == {"u1"}
Anonymous == "None"        \* scope["user"] is AnonymousUser, whose id is None
UserGroup(u) == "user_" \o u
TrackingGroups == Groups \cup {UserGroup(u) : u \in Users \cup {Anonymous}}
NoSocket == [state |-> "new", user |-> Anonymous]

\* ------------------------------------------------------ route planner data
\* A point is <<lat, lng>>, a search node <<lat, lng, altitude>>.
Starts == {<<20, 20>>}
Goals == {<<20, 50>>, <<20, 45>>}
Altitudes == {100}
Methods == {"astar", "direct"}
Priorities == {"balanced", "speed"}
NoAltitude == 0 - 1        \* an obstacle dict without the key: .get() is None
\* max_altitude of a call: None, or a ceiling below the preferred altitude.
MaxAltitudes == {NoAltitude, 80}

\* Zone boundaries: rectangles [lat_min..lat_max] x [lng_min..lng_max].
Block == [lat_min |-> 13, lat_max |-> 17, lng_min |-> 33, lng_max |-> 37]
Around == [lat_min |-> 15, lat_max |-> 25, lng_min |-> 15, lng_max |-> 25]
Boundaries == {Block, Around}

\* no_fly_zones rows.
ZoneIds == {1}
NoZone == [exists |-> FALSE, is_active |-> FALSE, boundary |-> Block]

\* The obstacle dict _get_obstacles builds from a no_fly_zones row (no
\* altitude_min key) and the one it builds from a static zone.
NoFlyObstacle(geometry, altitude_max) ==
  [type |-> "no_fly", geometry |-> geometry,
   altitude_min |-> NoAltitude, altitude_max |-> altitude_max]
StaticObstacle(geometry, altitude_min, altitude_max) ==
  [type |-> "no_fly", geometry |-> geometry,
   altitude_min |-> altitude_min, altitude_max |-> altitude_max]

\* Obstacle lists the search is run on.
ObstacleLists ==
  { <<>>,
    <<NoFlyObstacle(Block, max_altitude)>>,
    <<StaticObstacle(Block, 0, 100)>>,
    <<NoFlyObstacle(Around, max_altitude)>> }

\* _get_cache_key: the md5 of these six arguments, and of nothing else.
CacheKeys ==
  [start : Starts, end : Goals, altitude : Altitudes, method : Methods,
   avoids_no_fly : BOOLEAN, avoids_weather : {TRUE}]
_get_cache_key(start, end, altitude, method, avoids_no_fly, avoids_weather) ==
  [start |-> start, end |-> end, altitude |-> altitude, method |-> method,
   avoids_no_fly |-> avoids_no_fly, avoids_weather |-> avoids_weather]

\* The tuple optimize_route returns and caches.  computed_at is the number of
\* zone writes that had happened when the tuple was computed.
NoEntry == [found |-> FALSE, final_path |-> <<>>, optimization_method |-> "none",
            waypoints |-> <<>>, computed_at |-> 0]

\* came_from and g_score before the first node is entered.
EmptyMap == [n \in {} |-> 0]

\* No optimize_route call in progress.
NoSearch ==
  [pc |-> "idle", key |-> CHOOSE k \in CacheKeys : TRUE, priority |-> "balanced",
   altitude |-> 0, obstacles |-> <<>>, open_set |-> {}, came_from |-> EmptyMap,
   g_score |-> EmptyMap, nodes_explored |-> 0, waypoints |-> <<>>, via |-> "none",
   result |-> NoEntry, from_cache |-> FALSE, started_at |-> 0,
   returned_at |-> 0, max_altitude |-> NoAltitude]


\* ETAPredictor.__init__ with no model file: no historical deliveries, never
\* trained.  retrains lists the automatic retrains that completed, with the
\* number of historical deliveries and the day of each.
NoRetrain == 0 - 1
NewPredictor == [historical_deliveries |-> 0, successful |-> FALSE,
                 last_retrain |-> NoRetrain, retrains |-> <<>>]

\* The fleet: both drones idle and active, one of them with a low battery and
\* no position reported yet.
InitialFleet ==
  [d \in Drones |-> [status |-> "idle", is_active |-> TRUE,
                     battery_level |-> IF d = "d1" THEN FullBattery
                                      ELSE MinBattery - 5,
                     current_position |-> IF d = "d1" THEN "base" ELSE NoPosition,
                     last_heartbeat |-> NoTime]]

Init ==
  /\ orders = [o \in Orders |-> NewOrder]
  /\ drones = InitialFleet
  /\ history = [o \in Orders |-> <<>>]
  /\ routes = [o \in Orders |-> NoRoute]
  /\ waypoints = [o \in Orders |-> {}]
  /\ notifications = [o \in Orders |-> <<>>]
  /\ tasks = [t \in 1..MaxTasks |-> NoTask]
  /\ reqs = [r \in 1..MaxStatusReqs |-> NoReq]
  /\ assign_reqs = 0
  /\ db_up = TRUE
  /\ outages = 0
  /\ telemetry_data = [d \in Drones |-> <<>>]
  /\ status_streams = [d \in Drones |-> NoStream]
  /\ group_sends = [g \in Groups |-> <<>>]
  /\ ingests = [i \in 1..MaxIngests |-> NoIngest]
  /\ fleet_ops = 0
  /\ zones = [z \in ZoneIds |-> NoZone]
  /\ route_cache = [k \in CacheKeys |-> NoEntry]
  /\ search = NoSearch
  /\ zone_writes = 0
  /\ route_calls = 0
  /\ sockets = [c \in Conns |-> NoSocket]
  /\ group_members = [g \in TrackingGroups |-> {}]
  /\ channel_queue = [c \in Conns |-> <<>>]
  /\ client_inbox = [c \in Conns |-> <<>>]
  /\ socket_msgs = 0
  /\ deleted_orders = {}
  /\ eta_predictor = NewPredictor
  /\ today = 0

\* ------------------------------------------------------------ task queue
FreeSlots == {t \in 1..MaxTasks : tasks[t].kind = "none"}
NextSlot == CHOOSE t \in FreeSlots : \A u \in FreeSlots : t <= u

\* task.delay(...): a new message with request.retries = 0
Enqueue(tk, kind, o, d) ==
  [tk EXCEPT ![NextSlot] = [NoTask EXCEPT !.kind = kind, !.order = o, !.drone = d,
                                          !.pc = "queued"]]

\* A retry guard that lets a task through once more than max_retries allows.
Retry_OneTooMany(task) ==
  IF task.retries > max_retries
  THEN [task EXCEPT !.pc = "failed"]
  ELSE [task EXCEPT !.pc = "queued", !.retries = task.retries + 1,
                    !.countdown = retry_countdown, !.snap = NoSnap, !.idx = 0]

\* raise self.retry(exc=exc, countdown=60): re-send the message with
\* request.retries + 1, or re-raise exc once max_retries is exceeded.
Retry(task) ==
  IF task.retries + 1 > max_retries
  THEN [task EXCEPT !.pc = "failed"]
  ELSE [task EXCEPT !.pc = "queued", !.retries = task.retries + 1,
                    !.countdown = retry_countdown, !.snap = NoSnap, !.idx = 0]

\* Requests received and outages suffered so far.
Events == assign_reqs + Cardinality({r \in 1..MaxStatusReqs : reqs[r].pc # "none"}) + outages

\* Orders are created alike, so the first request that names an order is taken
\* to name order 1.
Addressed(o) ==
  \/ \E t \in 1..MaxTasks : tasks[t].kind # "none" /\ tasks[t].order = o
  \/ \E r \in 1..MaxStatusReqs : reqs[r].pc # "none" /\ reqs[r].order = o
Addressable(o) == \A p \in Orders : p < o => Addressed(p)

AtPc(t, kind, pc) == tasks[t].kind = kind /\ tasks[t].pc = pc

\* The tasks a worker process is executing.
Running == {t \in 1..MaxTasks : tasks[t].pc \notin {"none", "queued", "done", "failed"}}

\* A worker of the pool is free to take the message of task t.
Takes(t, kind) == AtPc(t, kind, "queued") /\ Cardinality(Running) < WorkerConcurrency

\* --------------------------------------------- assign_drone (the view)
\* POST orders/{id}/assign_drone: the drone must exist with is_active=True;
\* the task is then sent to the broker.
assign_drone(o, d) ==
  /\ db_up
  /\ assign_reqs < MaxAssignReqs
  /\ Events < MaxEvents
  /\ Addressable(o)
  /\ FreeSlots # {}
  /\ drones[d].is_active
  /\ tasks' = Enqueue(tasks, "assign", o, d)
  /\ assign_reqs' = assign_reqs + 1
  /\ UNCHANGED <<orders, drones, history, routes, waypoints, notifications, reqs,
                 db_up, outages,
                 telemetry_vars, planner_vars, tracking_vars,
                 deleted_orders,
                 predictor_vars>>

\* ------------------------------------ assign_drone_to_delivery (the task)
\* order = DeliveryOrder.objects.get(...); drone = Drone.objects.get(...)
assign_load(t) ==
  /\ Takes(t, "assign")
  /\ LET ord == orders[tasks[t].order]
         drn == drones[tasks[t].drone]
         run == [tasks[t] EXCEPT !.runs = @ + 1]
     IN tasks' = [tasks EXCEPT ![t] =
          IF db_up
          THEN [run EXCEPT !.pc = "a_save_order",
                           !.snap = [status |-> ord.status,
                                     picked_up_at |-> ord.picked_up_at,
                                     drone |-> ord.drone,
                                     drone_status |-> drn.status,
                                     drone_is_active |-> drn.is_active,
                                     drone_battery_level |-> drn.battery_level]]
          ELSE Retry(run)]
  /\ UNCHANGED <<orders, drones, history, routes, waypoints, notifications, reqs,
                 assign_reqs, db_up, outages,
                 telemetry_vars, planner_vars, tracking_vars,
                 deleted_orders,
                 predictor_vars>>

\* order.save(update_fields=['drone', 'status', 'assigned_at', 'picked_up_at'])
assign_save_order(t) ==
  /\ AtPc(t, "assign", "a_save_order")
  /\ LET o == tasks[t].order
         now == TaskStamp(t, tasks[t].retries)
     IN IF db_up
        THEN /\ orders' = [orders EXCEPT ![o] =
                  [@ EXCEPT !.drone = tasks[t].drone,
                            !.status = "in_transit",
                            !.assigned_at = now,
                            !.picked_up_at = IF tasks[t].snap.picked_up_at # NoTime
                                             THEN tasks[t].snap.picked_up_at
                                             ELSE now]]
             /\ tasks' = [tasks EXCEPT ![t].pc = "a_save_drone"]
        ELSE /\ tasks' = [tasks EXCEPT ![t] = Retry(@)]
             /\ UNCHANGED orders
  /\ UNCHANGED <<drones, history, routes, waypoints, notifications, reqs,
                 assign_reqs, db_up, outages,
                 telemetry_vars, planner_vars, tracking_vars,
                 deleted_orders,
                 predictor_vars>>

\* drone.status = DELIVERING; drone.save(update_fields=['status'])
assign_save_drone(t) ==
  /\ AtPc(t, "assign", "a_save_drone")
  /\ IF db_up
     THEN /\ drones' = [drones EXCEPT ![tasks[t].drone].status = "delivering"]
          /\ tasks' = [tasks EXCEPT ![t].pc = "a_history"]
     ELSE /\ tasks' = [tasks EXCEPT ![t] = Retry(@)]
          /\ UNCHANGED drones
  /\ UNCHANGED <<orders, history, routes, waypoints, notifications, reqs,
                 assign_reqs, db_up, outages,
                 telemetry_vars, planner_vars, tracking_vars,
                 deleted_orders,
                 predictor_vars>>

\* OrderStatusHistory.objects.create(order, status=IN_TRANSIT, notes="Drone ... dispatched")
assign_history(t) ==
  /\ AtPc(t, "assign", "a_history")
  /\ IF db_up
     THEN /\ history' = [history EXCEPT ![tasks[t].order] =
                           Append(@, [status |-> "in_transit", notes |-> "dispatched"])]
          /\ tasks' = [tasks EXCEPT ![t].pc = "a_enqueue"]
     ELSE /\ tasks' = [tasks EXCEPT ![t] = Retry(@)]
          /\ UNCHANGED history
  /\ UNCHANGED <<orders, drones, routes, waypoints, notifications, reqs,
                 assign_reqs, db_up, outages,
                 telemetry_vars, planner_vars, tracking_vars,
                 deleted_orders,
                 predictor_vars>>

\* optimize_route_and_predict_eta.delay(order.id); then order.customer is
\* loaded from the database and notify_customer_event.delay(...) is sent.
assign_enqueue(t) ==
  /\ AtPc(t, "assign", "a_enqueue")
  /\ FreeSlots # {}
  /\ LET o == tasks[t].order
         sent == Enqueue(tasks, "optimize", o, NoDrone)
     IN IF db_up
        THEN /\ tasks' = [sent EXCEPT ![t].pc = "done"]
             /\ notifications' = [notifications EXCEPT ![o] = Append(@, "delivery_assigned")]
        ELSE /\ tasks' = [sent EXCEPT ![t] = Retry(@)]
             /\ UNCHANGED notifications
  /\ UNCHANGED <<orders, drones, history, routes, waypoints, reqs,
                 assign_reqs, db_up, outages,
                 telemetry_vars, planner_vars, tracking_vars,
                 deleted_orders,
                 predictor_vars>>

assign_drone_to_delivery(t) ==
  \/ assign_load(t)
  \/ assign_save_order(t)
  \/ assign_save_drone(t)
  \/ assign_history(t)
  \/ assign_enqueue(t)

\* ------------------------------- optimize_route_and_predict_eta (the task)
\* The except block of the task writes a SystemLog row before self.retry: with
\* the database down that insert raises inside the handler and the task fails
\* without being retried.
OptimizeFailed(task) ==
  IF db_up THEN Retry(task) ELSE [task EXCEPT !.pc = "failed"]

\* Model.save(update_fields=...) raises ValueError for a name that is not a
\* concrete field of the model.
SaveAccepts(update_fields) == update_fields \subseteq OrderModelFields

\* The fields the NoFlyZone model class declares.
NoFlyZoneFields ==
  {"id", "name", "description", "zone_type", "severity", "boundary",
   "altitude_min", "altitude_max", "is_active", "valid_from", "valid_until",
   "created_at", "updated_at", "created_by"}

\* _get_obstacles: NoFlyZone.objects.filter(...).only(*ObstacleQueryFields)
ObstacleQueryFields == {"id", "boundary", "name", "altitude_restriction"}

\* A queryset restricted with only(...) raises FieldDoesNotExist, when it is
\* evaluated, for a name that is not a field of the model.
OnlyAccepts(fields) == fields \subseteq NoFlyZoneFields

\* route_optimizer.optimize_route(..., avoids_no_fly=True, method='astar') as the
\* task calls it: _get_obstacles iterates the no-fly zone queryset before the
\* search starts and catches ImportError only, so the optimizer raises and the
\* task builds the direct fallback unless the queryset can be evaluated.
OptimizerOutcome ==
  IF OnlyAccepts(ObstacleQueryFields) THEN "waypoint_objects" ELSE "direct_fallback"

\* waypoints_data of the direct fallback: start and end
FallbackWaypoints == <<"start", "end">>

\* SystemLog.log(...); order = DeliveryOrder.objects.select_related(...).get(...);
\* the order needs its locations and a drone.
optimize_load(t) ==
  /\ Takes(t, "optimize")
  /\ LET o == tasks[t].order
         ord == orders[o]
         run == [tasks[t] EXCEPT !.runs = @ + 1]
     IN tasks' = [tasks EXCEPT ![t] =
          IF ~db_up \/ ~ord.pickup_location \/ ord.drone = NoDrone
          THEN OptimizeFailed(run)
          ELSE [run EXCEPT !.pc = "o_route",
                           !.snap = [status |-> ord.status,
                                     picked_up_at |-> ord.picked_up_at,
                                     drone |-> ord.drone,
                                     drone_status |-> drones[ord.drone].status,
                                     drone_is_active |-> drones[ord.drone].is_active,
                                     drone_battery_level |->
                                       drones[ord.drone].battery_level]]]
  /\ UNCHANGED <<orders, drones, history, routes, waypoints, notifications, reqs,
                 assign_reqs, db_up, outages,
                 telemetry_vars, planner_vars, tracking_vars,
                 deleted_orders,
                 predictor_vars>>

\* route_optimizer.optimize_route(...) returns Waypoint dataclass objects, or
\* raises and the direct fallback builds waypoint dicts.  The defaults of
\* Route.objects.update_or_create evaluate wp['lat'] for every waypoint, which
\* raises TypeError for a dataclass object.
optimize_route(t, outcome) ==
  /\ AtPc(t, "optimize", "o_route")
  /\ LET o == tasks[t].order
     IN IF db_up /\ outcome = "direct_fallback"
        THEN /\ routes' = [routes EXCEPT ![o] =
                  [exists |-> TRUE, optimization_method |-> "direct_fallback",
                   estimated_eta |-> TaskStamp(t, tasks[t].retries)]]
             /\ tasks' = [tasks EXCEPT ![t].pc = "o_wp_delete"]
        ELSE /\ tasks' = [tasks EXCEPT ![t] = OptimizeFailed(@)]
             /\ UNCHANGED routes
  /\ UNCHANGED <<orders, drones, history, waypoints, notifications, reqs,
                 assign_reqs, db_up, outages,
                 telemetry_vars, planner_vars, tracking_vars,
                 deleted_orders,
                 predictor_vars>>

\* Waypoint.objects.filter(route=route).delete()
optimize_wp_delete(t) ==
  /\ AtPc(t, "optimize", "o_wp_delete")
  /\ IF db_up
     THEN /\ waypoints' = [waypoints EXCEPT ![tasks[t].order] = {}]
          /\ tasks' = [tasks EXCEPT ![t].pc = "o_wp_create", ![t].idx = 1]
     ELSE /\ tasks' = [tasks EXCEPT ![t] = OptimizeFailed(@)]
          /\ UNCHANGED waypoints
  /\ UNCHANGED <<orders, drones, history, routes, notifications, reqs,
                 assign_reqs, db_up, outages,
                 telemetry_vars, planner_vars, tracking_vars,
                 deleted_orders,
                 predictor_vars>>

\* Waypoint.objects.create(route=route, sequence=idx, ...), one insert per
\* waypoint; (route, sequence) is unique_together.
optimize_wp_create(t) ==
  /\ AtPc(t, "optimize", "o_wp_create")
  /\ LET o == tasks[t].order
         idx == tasks[t].idx
     IN IF db_up /\ ~(\E w \in waypoints[o] : w.sequence = idx)
        THEN /\ waypoints' = [waypoints EXCEPT ![o] =
                  @ \cup {[sequence |-> idx, action |-> FallbackWaypoints[idx]]}]
             /\ tasks' = [tasks EXCEPT ![t] =
                  IF idx = Len(FallbackWaypoints)
                  THEN [@ EXCEPT !.pc = "o_save", !.idx = 0]
                  ELSE [@ EXCEPT !.idx = idx + 1]]
        ELSE /\ tasks' = [tasks EXCEPT ![t] = OptimizeFailed(@)]
             /\ UNCHANGED waypoints
  /\ UNCHANGED <<orders, drones, history, routes, notifications, reqs,
                 assign_reqs, db_up, outages,
                 telemetry_vars, planner_vars, tracking_vars,
                 deleted_orders,
                 predictor_vars>>

\* "Update order with ETA" to the end of the task: order.save(update_fields=
\* [..., 'estimated_duration_minutes', 'total_cost', ...]), the history row,
\* the drone status and the notifications.
optimize_save(t) ==
  /\ AtPc(t, "optimize", "o_save")
  /\ LET o == tasks[t].order
         snap == tasks[t].snap
         now == TaskStamp(t, tasks[t].retries)
         moves == snap.status \notin {"in_transit", "delivering"}
         update_fields ==
           {"estimated_eta", "estimated_duration_minutes", "total_cost"}
             \cup (IF moves THEN {"status", "picked_up_at"} ELSE {})
     IN IF db_up /\ SaveAccepts(update_fields)
        THEN /\ orders' = [orders EXCEPT ![o] =
                  IF moves
                  THEN [@ EXCEPT !.estimated_eta = now,
                                 !.status = "in_transit",
                                 !.picked_up_at = IF snap.picked_up_at # NoTime
                                                  THEN snap.picked_up_at ELSE now]
                  ELSE [@ EXCEPT !.estimated_eta = now]]
             /\ history' = [history EXCEPT ![o] =
                  IF moves
                  THEN Append(@, [status |-> "in_transit", notes |-> "route_optimized"])
                  ELSE @]
             /\ drones' = [drones EXCEPT ![snap.drone].status =
                  IF snap.drone_status # "delivering" THEN "delivering" ELSE @]
             /\ notifications' = [notifications EXCEPT ![o] = Append(@, "route_optimized")]
             /\ tasks' = [tasks EXCEPT ![t].pc = "done"]
        ELSE /\ tasks' = [tasks EXCEPT ![t] = OptimizeFailed(@)]
             /\ UNCHANGED <<orders, history, drones, notifications>>
  /\ UNCHANGED <<routes, waypoints, reqs, assign_reqs, db_up, outages,
                 telemetry_vars, planner_vars, tracking_vars,
                 deleted_orders,
                 predictor_vars>>

optimize_route_and_predict_eta(t) ==
  \/ optimize_load(t)
  \/ optimize_route(t, OptimizerOutcome)
  \/ optimize_wp_delete(t)
  \/ optimize_wp_create(t)
  \/ optimize_save(t)

\* --------------------------------------------- update_status (the view)
\* order = self.get_object(); new_status must be one of Status.choices.
update_status_begin(r, o, new_status) ==
  /\ db_up
  /\ reqs[r].pc = "none"
  /\ Events < MaxEvents
  /\ Addressable(o)
  /\ \A q \in 1..MaxStatusReqs : q < r => reqs[q].pc # "none"
  /\ reqs' = [reqs EXCEPT ![r] =
       IF o \in deleted_orders
       THEN [NoReq EXCEPT !.order = o, !.new_status = new_status,
                          !.pc = "done", !.resp = "not_found"]
       ELSE IF new_status \notin OrderStatuses
       THEN [NoReq EXCEPT !.order = o, !.new_status = new_status, !.snap = orders[o],
                          !.pc = "done", !.resp = "bad_request"]
       ELSE [NoReq EXCEPT !.order = o, !.new_status = new_status, !.snap = orders[o],
                          !.pc = "u_save"]]
  /\ UNCHANGED <<orders, drones, history, routes, waypoints, notifications, tasks,
                 assign_reqs, db_up, outages,
                 telemetry_vars, planner_vars, tracking_vars,
                 deleted_orders,
                 predictor_vars>>

\* The row update_status writes: the row it read, with the new status and the
\* timestamps of the target status.
StatusUpdated(row, new_status, now) ==
  LET moved == [row EXCEPT !.status = new_status]
  IN CASE new_status = "assigned" /\ row.assigned_at = NoTime ->
            [moved EXCEPT !.assigned_at = now]
       [] new_status = "in_transit" /\ row.picked_up_at = NoTime ->
            [moved EXCEPT !.picked_up_at = now]
       [] new_status = "delivered" ->
            [moved EXCEPT !.delivered_at = now, !.actual_delivery_time = now]
       [] OTHER -> moved

\* order.save(): every field of the instance read by get_object is written;
\* when the UPDATE matches no row (the order was deleted meanwhile) the row is
\* inserted.
update_status_save(r) ==
  /\ reqs[r].pc = "u_save"
  /\ IF db_up
     THEN /\ orders' = [orders EXCEPT ![reqs[r].order] =
                StatusUpdated(reqs[r].snap, reqs[r].new_status, ReqStamp(r))]
          /\ deleted_orders' = deleted_orders \ {reqs[r].order}
          /\ reqs' = [reqs EXCEPT ![r].pc = "u_history"]
     ELSE /\ reqs' = [reqs EXCEPT ![r].pc = "done", ![r].resp = "server_error"]
          /\ UNCHANGED <<orders, deleted_orders>>
  /\ UNCHANGED <<drones, history, routes, waypoints, notifications, tasks,
                 assign_reqs, db_up, outages,
                 telemetry_vars, planner_vars, tracking_vars,
                 predictor_vars>>

\* OrderStatusHistory.objects.create(order, status=new_status, changed_by=user)
update_status_history(r) ==
  /\ reqs[r].pc = "u_history"
  /\ IF db_up
     THEN /\ history' = [history EXCEPT ![reqs[r].order] =
                Append(@, [status |-> reqs[r].new_status, notes |-> "user"])]
          /\ reqs' = [reqs EXCEPT ![r].pc = "done", ![r].resp = "ok"]
     ELSE /\ reqs' = [reqs EXCEPT ![r].pc = "done", ![r].resp = "server_error"]
          /\ UNCHANGED history
  /\ UNCHANGED <<orders, drones, routes, waypoints, notifications, tasks,
                 assign_reqs, db_up, outages,
                 telemetry_vars, planner_vars, tracking_vars,
                 deleted_orders,
                 predictor_vars>>

update_status(r) ==
  \/ \E o \in Orders, s \in StatusInputs : update_status_begin(r, o, s)
  \/ update_status_save(r)
  \/ update_status_history(r)

\* ------------------------------------------------------------ environment
DatabaseFails ==
  /\ db_up
  /\ outages < MaxOutages
  /\ Events < MaxEvents
  /\ db_up' = FALSE
  /\ outages' = outages + 1
  /\ UNCHANGED <<orders, drones, history, routes, waypoints, notifications, tasks,
                 reqs, assign_reqs,
                 telemetry_vars, planner_vars, tracking_vars,
                 deleted_orders,
                 predictor_vars>>

DatabaseRecovers ==
  /\ ~db_up
  /\ db_up' = TRUE
  /\ UNCHANGED <<orders, drones, history, routes, waypoints, notifications, tasks,
                 reqs, assign_reqs, outages,
                 telemetry_vars, planner_vars, tracking_vars,
                 deleted_orders,
                 predictor_vars>>

Next ==
  \/ \E o \in Orders, d \in Drones : assign_drone(o, d)
  \/ \E t \in 1..MaxTasks : assign_drone_to_delivery(t)
  \/ \E t \in 1..MaxTasks : optimize_route_and_predict_eta(t)
  \/ \E r \in 1..MaxStatusReqs : update_status(r)
  \/ DatabaseFails
  \/ DatabaseRecovers

Spec == Init /\ [][Next]_vars

\* ------------------------------------------------ the orders API (CRUD)
\* DELETE orders/{id}/ (ModelViewSet.destroy): the delivery_order row is
\* deleted, and with it the rows that reference it with on_delete=CASCADE:
\* its order_status_history rows and its route with the route's waypoints.
DeliveryOrderViewSet_destroy(o) ==
  /\ db_up
  /\ o \notin deleted_orders
  /\ deleted_orders' = deleted_orders \cup {o}
  /\ orders' = [orders EXCEPT ![o] = NewOrder]
  /\ history' = [history EXCEPT ![o] = <<>>]
  /\ routes' = [routes EXCEPT ![o] = NoRoute]
  /\ waypoints' = [waypoints EXCEPT ![o] = {}]
  /\ UNCHANGED <<drones, notifications, tasks, reqs, assign_reqs, db_up, outages,
                 telemetry_vars, planner_vars, tracking_vars,
                 predictor_vars>>

OrdersNext ==
  \/ \E r \in 1..MaxStatusReqs : update_status(r)
  \/ \E o \in Orders : DeliveryOrderViewSet_destroy(o)
  \/ DatabaseFails
  \/ DatabaseRecovers

OrdersSpec == Init /\ [][OrdersNext]_vars

\* ============================================================== telemetry
\* POST telemetry/: the drone is looked up, the payload is rebuilt with every
\* key present (None for a key the request lacks) and process_live_telemetry
\* is sent.  The payloads modelled carry every reading; latitude and
\* longitude may be null.
TelemetryDataViewSet_create(d, latlng, level, in_flight) ==
  /\ \E i \in 1..MaxIngests :
       /\ ingests[i].pc = "none"
       /\ \A j \in 1..MaxIngests : j < i => ingests[j].pc # "none"
       /\ ingests' = [ingests EXCEPT ![i] =
            [NoIngest EXCEPT !.drone = d, !.latlng = latlng, !.battery_level = level,
                             !.is_in_flight = in_flight, !.pc = "queued"]]
  /\ UNCHANGED <<drones, dispatch_vars, planner_vars, tracking_vars, telemetry_data,
                 status_streams, group_sends,
                 fleet_ops,
                 predictor_vars>>

\* The telemetry tasks a worker process is executing.
Ingesting == {i \in 1..MaxIngests : ingests[i].pc \notin {"none", "queued", "done", "failed"}}

\* drone = Drone.objects.get(id=drone_id); position is the payload's point
\* if lat and lng, else drone.current_position.
telemetry_load(i) ==
  /\ ingests[i].pc = "queued"
  /\ Cardinality(Ingesting) < IngestConcurrency
  /\ LET snap == drones[ingests[i].drone]
     IN ingests' = [ingests EXCEPT ![i] =
          [@ EXCEPT !.pc = "t_insert", !.snap = snap,
                    !.position = IF ingests[i].latlng # NoPosition
                                 THEN ingests[i].latlng
                                 ELSE snap.current_position]]
  /\ UNCHANGED <<drones, dispatch_vars, planner_vars, tracking_vars, telemetry_data,
                 status_streams, group_sends,
                 fleet_ops,
                 predictor_vars>>

\* TelemetryData.objects.create(drone, position, ..., battery_level, is_in_flight):
\* telemetry_data.position is NOT NULL, so a null position raises IntegrityError.
telemetry_insert(i) ==
  /\ ingests[i].pc = "t_insert"
  /\ IF ingests[i].position = NoPosition
     THEN /\ ingests' = [ingests EXCEPT ![i].pc = "failed"]
          /\ UNCHANGED telemetry_data
     ELSE /\ telemetry_data' = [telemetry_data EXCEPT ![ingests[i].drone] =
               Append(@, [timestamp |-> IngestStamp(i),
                          position |-> ingests[i].position,
                          battery_level |-> ingests[i].battery_level,
                          is_in_flight |-> ingests[i].is_in_flight])]
          /\ ingests' = [ingests EXCEPT ![i].pc = "t_save"]
  /\ UNCHANGED <<drones, dispatch_vars, planner_vars, tracking_vars, status_streams,
                 group_sends, fleet_ops,
                 predictor_vars>>

\* "Update drone current position/state": Drone.Status has no member
\* IN_FLIGHT, so for an is_in_flight payload the assignment of drone.status
\* raises AttributeError; otherwise drone.save() writes every field of the
\* instance the task loaded.
telemetry_save(i) ==
  /\ ingests[i].pc = "t_save"
  /\ IF ingests[i].is_in_flight
     THEN /\ ingests' = [ingests EXCEPT ![i].pc = "failed"]
          /\ UNCHANGED drones
     ELSE /\ drones' = [drones EXCEPT ![ingests[i].drone] =
               [ingests[i].snap EXCEPT !.current_position = ingests[i].position,
                                       !.battery_level = ingests[i].battery_level,
                                       !.last_heartbeat = IngestStamp(i)]]
          /\ ingests' = [ingests EXCEPT ![i].pc = "t_stream"]
  /\ UNCHANGED <<dispatch_vars, planner_vars, tracking_vars, telemetry_data,
                 status_streams, group_sends, fleet_ops,
                 predictor_vars>>

\* DroneStatusStream.objects.update_or_create(drone, defaults={is_online: True,
\* last_heartbeat: now, ...})
telemetry_stream(i) ==
  /\ ingests[i].pc = "t_stream"
  /\ status_streams' = [status_streams EXCEPT ![ingests[i].drone] =
       [exists |-> TRUE, is_online |-> TRUE, last_heartbeat |-> IngestStamp(i)]]
  /\ ingests' = [ingests EXCEPT ![i].pc = "t_send_updates"]
  /\ UNCHANGED <<drones, dispatch_vars, planner_vars, tracking_vars, telemetry_data,
                 group_sends, fleet_ops,
                 predictor_vars>>

\* group_send of the channel layer: the event is put on the queue of every
\* channel that is a member of the group at that moment.
Delivered(g, event) ==
  [c \in Conns |-> IF c \in group_members[g] THEN Append(channel_queue[c], event)
                   ELSE channel_queue[c]]

\* channel_layer.group_send("drone_updates", {type: drone_update, ...})
telemetry_send_updates(i) ==
  /\ ingests[i].pc = "t_send_updates"
  /\ group_sends' = [group_sends EXCEPT !["drone_updates"] =
       Append(@, [type |-> "drone_update", drone_id |-> ingests[i].drone,
                  timestamp |-> IngestStamp(i)])]
  /\ channel_queue' = Delivered("drone_updates",
       [type |-> "drone_update", drone_id |-> ingests[i].drone,
        timestamp |-> IngestStamp(i)])
  /\ ingests' = [ingests EXCEPT ![i].pc = "t_send_drone"]
  /\ UNCHANGED <<drones, dispatch_vars, planner_vars, telemetry_data, status_streams,
                 fleet_ops, sockets, group_members, client_inbox, socket_msgs,
                 predictor_vars>>

\* channel_layer.group_send(f"drone_{drone.id}", {type: telemetry_data, ...})
telemetry_send_drone(i) ==
  /\ ingests[i].pc = "t_send_drone"
  /\ group_sends' = [group_sends EXCEPT ![DroneGroup(ingests[i].drone)] =
       Append(@, [type |-> "telemetry_data", drone_id |-> ingests[i].drone,
                  timestamp |-> IngestStamp(i)])]
  /\ channel_queue' = Delivered(DroneGroup(ingests[i].drone),
       [type |-> "telemetry_data", drone_id |-> ingests[i].drone,
        timestamp |-> IngestStamp(i)])
  /\ ingests' = [ingests EXCEPT ![i].pc = "done"]
  /\ UNCHANGED <<drones, dispatch_vars, planner_vars, telemetry_data, status_streams,
                 fleet_ops, sockets, group_members, client_inbox, socket_msgs,
                 predictor_vars>>

process_live_telemetry(i) ==
  \/ telemetry_load(i)
  \/ telemetry_insert(i)
  \/ telemetry_save(i)
  \/ telemetry_stream(i)
  \/ telemetry_send_updates(i)
  \/ telemetry_send_drone(i)

\* ------------------------------------------------------ the drone table
\* POST drones/{id}/update_battery: a level outside 0..100 is answered 400.
update_battery(d, level) ==
  /\ fleet_ops < MaxFleetOps
  /\ fleet_ops' = fleet_ops + 1
  /\ drones' = IF 0 <= level /\ level <= 100
               THEN [drones EXCEPT ![d].battery_level = level]
               ELSE drones
  /\ UNCHANGED <<dispatch_vars, planner_vars, tracking_vars, telemetry_data,
                 status_streams, group_sends, ingests,
                 predictor_vars>>

\* PATCH drones/{id}/ through DroneSerializer: battery_level is a plain
\* IntegerField of the model, which the serializer takes as it comes.
DroneSerializer_update(d, level) ==
  /\ fleet_ops < MaxFleetOps
  /\ fleet_ops' = fleet_ops + 1
  /\ drones' = [drones EXCEPT ![d].battery_level = level]
  /\ UNCHANGED <<dispatch_vars, planner_vars, tracking_vars, telemetry_data,
                 status_streams, group_sends, ingests,
                 predictor_vars>>

\* drain_rate of simulate_battery_drain, in hundredths of a percent per run.
drain_rate(status) ==
  CASE status = "delivering" -> 50
    [] status = "returning" -> 40
    [] status = "assigned" -> 30
    [] status = "idle" -> 5
    [] OTHER -> 0

\* The drone row after one run of simulate_battery_drain.  The level is
\* max(0, level - drain_rate), a float, which the IntegerField stores cut to
\* its integer part; the switch to charging tests the float.
Drained(drone) ==
  LET hundredths == drone.battery_level * 100 - drain_rate(drone.status)
      level == IF hundredths < 0 THEN 0 ELSE hundredths
  IN CASE drone.status = "charging" ->
            IF drone.battery_level < 100
            THEN [drone EXCEPT !.battery_level =
                    IF drone.battery_level + 2 > 100 THEN 100 ELSE drone.battery_level + 2]
            ELSE drone
       [] drone.status \in {"maintenance", "offline"} -> drone
       [] drone.battery_level > 0 ->
            [drone EXCEPT !.battery_level = level \div 100,
                          !.status = IF level <= 2000 /\ drone.status = "idle"
                                     THEN "charging" ELSE drone.status]
       [] OTHER -> drone

\* simulate_battery_drain: every active drone is drained or charged.
simulate_battery_drain ==
  /\ fleet_ops < MaxFleetOps
  /\ fleet_ops' = fleet_ops + 1
  /\ drones' = [d \in Drones |->
       IF drones[d].is_active THEN Drained(drones[d]) ELSE drones[d]]
  /\ UNCHANGED <<dispatch_vars, planner_vars, tracking_vars, telemetry_data,
                 status_streams, group_sends, ingests,
                 predictor_vars>>

TelemetryNext ==
  \/ \E d \in Drones, latlng \in {"p1", NoPosition}, level \in BatteryInputs,
        in_flight \in BOOLEAN : TelemetryDataViewSet_create(d, latlng, level, in_flight)
  \/ \E i \in 1..MaxIngests : process_live_telemetry(i)
  \/ \E d \in Drones, level \in BatteryInputs : update_battery(d, level)
  \/ \E d \in Drones, level \in BatteryInputs : DroneSerializer_update(d, level)
  \/ simulate_battery_drain

TelemetrySpec == Init /\ [][TelemetryNext]_vars

\* ========================================================== ETA predictor
auto_retrain_samples == 100   \* len(self.historical_deliveries) >= 100
auto_retrain_days == 7        \* days_since_retrain >= 7
never_retrained_days == 999   \* days_since_retrain when last_retrain is None
min_samples == 50             \* train(min_samples=50)

\* ETAPredictor.train: refused below min_samples historical deliveries; the
\* model is fitted on the successful deliveries (fitting on none raises), and
\* last_retrain is set after the fit.  automatic: called by
\* add_historical_delivery.
train(predictor, automatic) ==
  IF predictor.historical_deliveries < min_samples \/ ~predictor.successful
  THEN predictor
  ELSE [predictor EXCEPT
          !.last_retrain = today,
          !.retrains = IF automatic
                       THEN Append(@, [samples |-> predictor.historical_deliveries,
                                       day |-> today])
                       ELSE @]

\* ETAPredictor.add_historical_delivery: the delivery is appended, and with
\* 100 or more historical deliveries and 7 or more days since the last retrain
\* (999 when there was none) the model is retrained.
add_historical_delivery(success) ==
  /\ eta_predictor.historical_deliveries < MaxHistorical
  /\ LET added == [eta_predictor EXCEPT
                     !.historical_deliveries = @ + 1,
                     !.successful = @ \/ success]
         days_since_retrain == IF added.last_retrain # NoRetrain
                               THEN today - added.last_retrain
                               ELSE never_retrained_days
     IN eta_predictor' =
          IF added.historical_deliveries >= auto_retrain_samples
             /\ days_since_retrain >= auto_retrain_days
          THEN train(added, TRUE)
          ELSE added
  /\ UNCHANGED <<drones, dispatch_vars, telemetry_vars, planner_vars, tracking_vars,
                 today>>

\* train() called by an operator.
ETAPredictor_train ==
  /\ eta_predictor' = train(eta_predictor, FALSE)
  /\ eta_predictor' # eta_predictor
  /\ UNCHANGED <<drones, dispatch_vars, telemetry_vars, planner_vars, tracking_vars,
                 today>>

\* A day passes.
DayPasses ==
  /\ today < MaxDay
  /\ today' = today + 1
  /\ UNCHANGED <<drones, dispatch_vars, telemetry_vars, planner_vars, tracking_vars,
                 eta_predictor>>

PredictorNext ==
  \/ \E success \in BOOLEAN : add_historical_delivery(success)
  \/ ETAPredictor_train
  \/ DayPasses

PredictorSpec == Init /\ [][PredictorNext]_vars

\* ======================================================== tracking sockets
\* A connect that accepts every connection, authenticated or not.
DroneTrackingConsumer_connect_Unchecked(c, user) ==
  /\ sockets[c].state = "new"
  /\ group_members' = [group_members EXCEPT
       !["drone_updates"] = @ \cup {c}, ![UserGroup(user)] = @ \cup {c}]
  /\ sockets' = [sockets EXCEPT ![c] = [state |-> "open", user |-> user]]
  /\ UNCHANGED <<drones, dispatch_vars, telemetry_vars, planner_vars, channel_queue,
                 client_inbox, socket_msgs,
                 predictor_vars>>

\* DroneTrackingConsumer.connect.  A connection whose user is not
\* authenticated is closed before it is accepted; the others join
\* drone_updates and their user group and are accepted.
DroneTrackingConsumer_connect(c, user) ==
  /\ sockets[c].state = "new"
  /\ IF user = Anonymous
     THEN /\ sockets' = [sockets EXCEPT ![c] = [state |-> "rejected", user |-> user]]
          /\ UNCHANGED group_members
     ELSE /\ group_members' = [group_members EXCEPT
               !["drone_updates"] = @ \cup {c}, ![UserGroup(user)] = @ \cup {c}]
          /\ sockets' = [sockets EXCEPT ![c] = [state |-> "open", user |-> user]]
  /\ UNCHANGED <<drones, dispatch_vars, telemetry_vars, planner_vars, channel_queue,
                 client_inbox, socket_msgs,
                 predictor_vars>>

\* DroneTrackingConsumer.disconnect, called when the connection ends (also
\* after connect has closed it): the channel leaves drone_updates and the
\* user group.
DroneTrackingConsumer_disconnect(c) ==
  /\ sockets[c].state \in {"open", "rejected"}
  /\ group_members' = [group_members EXCEPT
       !["drone_updates"] = @ \ {c}, ![UserGroup(sockets[c].user)] = @ \ {c}]
  /\ sockets' = [sockets EXCEPT ![c].state = "closed"]
  /\ UNCHANGED <<drones, dispatch_vars, telemetry_vars, planner_vars, channel_queue,
                 client_inbox, socket_msgs,
                 predictor_vars>>

\* The frames a client sends: subscribe_drone and unsubscribe_drone with a
\* drone_id (NoDrone: without one), text that is not JSON, and JSON that is
\* not an object.
ClientFrames ==
  [type : {"subscribe_drone", "unsubscribe_drone"}, drone_id : Drones \cup {NoDrone}]
  \cup {[type |-> "invalid_json", drone_id |-> NoDrone],
        [type |-> "not_an_object", drone_id |-> NoDrone]}

\* DroneTrackingConsumer.receive.  Only an accepted connection delivers
\* frames.  JSONDecodeError is caught; data.get on JSON that is not an object
\* raises AttributeError, which ends the consumer without disconnect being
\* called.
DroneTrackingConsumer_receive(c, frame) ==
  /\ sockets[c].state = "open"
  /\ socket_msgs < MaxSocketMsgs
  /\ socket_msgs' = socket_msgs + 1
  /\ CASE frame.type = "subscribe_drone" /\ frame.drone_id # NoDrone ->
            /\ group_members' = [group_members EXCEPT
                 ![DroneGroup(frame.drone_id)] = @ \cup {c}]
            /\ UNCHANGED sockets
       [] frame.type = "unsubscribe_drone" /\ frame.drone_id # NoDrone ->
            /\ group_members' = [group_members EXCEPT
                 ![DroneGroup(frame.drone_id)] = @ \ {c}]
            /\ UNCHANGED sockets
       [] frame.type = "not_an_object" ->
            /\ sockets' = [sockets EXCEPT ![c].state = "closed"]
            /\ UNCHANGED group_members
       [] OTHER -> UNCHANGED <<sockets, group_members>>
  /\ UNCHANGED <<drones, dispatch_vars, telemetry_vars, planner_vars, channel_queue,
                 client_inbox,
                 predictor_vars>>

\* The consumer takes the next event of its channel and runs the handler
\* named by the event's type: drone_update, telemetry_data, delivery_update.
FrameOf(event) ==
  [type |-> CASE event.type = "telemetry_data" -> "telemetry"
              [] OTHER -> event.type,
   drone_id |-> event.drone_id, timestamp |-> event.timestamp]

DroneTrackingConsumer_dispatch(c) ==
  /\ sockets[c].state = "open"
  /\ channel_queue[c] # <<>>
  /\ client_inbox' = [client_inbox EXCEPT ![c] = Append(@, FrameOf(Head(channel_queue[c])))]
  /\ channel_queue' = [channel_queue EXCEPT ![c] = Tail(@)]
  /\ UNCHANGED <<drones, dispatch_vars, telemetry_vars, planner_vars, sockets,
                 group_members, socket_msgs,
                 predictor_vars>>

\* The drone the clients of this part follow and the drone reports for.
Tracked == {"d1"}

TrackedFrames == {frame \in ClientFrames : frame.drone_id \in Tracked \cup {NoDrone}}

TrackingNext ==
  \/ \E c \in Conns, user \in Users \cup {Anonymous} : DroneTrackingConsumer_connect(c, user)
  \/ \E c \in Conns : DroneTrackingConsumer_disconnect(c)
  \/ \E c \in Conns, frame \in TrackedFrames : DroneTrackingConsumer_receive(c, frame)
  \/ \E c \in Conns : DroneTrackingConsumer_dispatch(c)
  \/ \E d \in Tracked, in_flight \in BOOLEAN :
       TelemetryDataViewSet_create(d, "p1", 50, in_flight)
  \/ \E i \in 1..MaxIngests : process_live_telemetry(i)

TrackingSpec == Init /\ [][TrackingNext]_vars


\* ========================================================= route optimizer
Abs(n) == IF n < 0 THEN 0 - n ELSE n
Min2(a, b) == IF a < b THEN a ELSE b
Max2(a, b) == IF a > b THEN a ELSE b

\* The integer part of the square root: the largest r in lo..hi with r*r <= n.
RECURSIVE SqrtBetween(_, _, _)
SqrtBetween(n, lo, hi) ==
  IF lo = hi THEN lo
  ELSE LET mid == (lo + hi + 1) \div 2
       IN  IF mid * mid <= n THEN SqrtBetween(n, mid, hi)
                             ELSE SqrtBetween(n, lo, mid - 1)
ISqrt(n) == SqrtBetween(n, 0, 46340)

\* _haversine over these short distances, in decimetres: 0.0001 degrees of
\* latitude are 11.1 m, and 10.8 m of longitude at the latitude of the
\* static zone catalog (13 degrees north).
LatUnitLength == 111
LngUnitLength == 108
_haversine(lat1, lng1, lat2, lng2) ==
  ISqrt((LatUnitLength * (lat2 - lat1)) * (LatUnitLength * (lat2 - lat1))
        + (LngUnitLength * (lng2 - lng1)) * (LngUnitLength * (lng2 - lng1)))

\* abs(alt2 - alt1) / 1000.0 kilometres, in decimetres.
VerticalDist(alt1, alt2) == 10 * Abs(alt2 - alt1)

_heuristic(node, goal) ==
  LET horizontal_dist == _haversine(node[1], node[2], goal[1], goal[2])
      vertical_dist == VerticalDist(node[3], goal[3])
  IN  ISqrt(horizontal_dist * horizontal_dist + vertical_dist * vertical_dist)

_edge_cost(node1, node2, priority) ==
  LET horizontal_dist == _haversine(node1[1], node1[2], node2[1], node2[2])
      vertical_dist == VerticalDist(node1[3], node2[3])
      distance == ISqrt(horizontal_dist * horizontal_dist
                        + vertical_dist * vertical_dist)
  IN  CASE priority = "speed" -> distance
        [] priority = "energy" -> distance + 50 * Abs(node2[3] - node1[3])
        [] priority = "safety" ->
             distance + (IF node2[3] > node1[3] THEN 0 - 1000 ELSE 1000)
        [] OTHER -> distance + 20 * Abs(node2[3] - node1[3])

\* The neighbours of a node: eight horizontal ones, and for the priorities
\* safety and balanced the two vertical ones inside the altitude range.
_get_neighbors(node, goal, priority) ==
  { <<node[1] + dlat, node[2] + dlng, node[3]>> :
      <<dlat, dlng>> \in
        { d \in {0 - grid_resolution, 0, grid_resolution}
                \X {0 - grid_resolution, 0, grid_resolution} : d # <<0, 0>> } }
  \cup (IF priority \in {"safety", "balanced"}
        THEN {n \in {<<node[1], node[2], node[3] + altitude_step>>} :
                n[3] <= max_altitude}
             \cup {n \in {<<node[1], node[2], node[3] - altitude_step>>} :
                     n[3] >= min_altitude}
        ELSE {})

\* The part of the unbounded grid the search is followed on.
InWindow(node) == node[1] \in 0..GridLat /\ node[2] \in 0..GridLng

_is_goal(node, goal) ==
  Abs(node[1] - goal[1]) < goal_tolerance /\ Abs(node[2] - goal[2]) < goal_tolerance

\* How far a coordinate lies outside the interval lo..hi.
Outside(x, lo, hi) == IF x < lo THEN lo - x ELSE IF x > hi THEN x - hi ELSE 0

\* geom.buffer(safety_buffer / 111000.0) contains or touches the point: the
\* point is within safety_buffer metres of the boundary, at 111 m for every
\* 0.001 degrees.
BufferedContains(geometry, lat, lng) ==
  LET dlat == Outside(lat, geometry.lat_min, geometry.lat_max)
      dlng == Outside(lng, geometry.lng_min, geometry.lng_max)
  IN  111 * 111 * (dlat * dlat + dlng * dlng)
        <= (safety_buffer * grid_resolution) * (safety_buffer * grid_resolution)

\* The obstacle's altitude band covers the altitude.
InBand(obstacle, alt) ==
  /\ ~(obstacle.altitude_min # NoAltitude /\ alt < obstacle.altitude_min)
  /\ ~(obstacle.altitude_max # NoAltitude /\ alt > obstacle.altitude_max)

_is_in_obstacle(node, obstacles) ==
  \E i \in 1..Len(obstacles) :
    /\ InBand(obstacles[i], node[3])
    /\ BufferedContains(obstacles[i].geometry, node[1], node[2])

\* _reconstruct_path: follow came_from back from the node the search stopped
\* at, stopping at the start node.
RECURSIVE _reconstruct_path(_, _, _)
_reconstruct_path(came_from, current, start) ==
  IF current \notin DOMAIN came_from THEN <<current>>
  ELSE IF came_from[current] = start THEN <<start, current>>
  ELSE Append(_reconstruct_path(came_from, came_from[current], start), current)

Waypoint(lat, lng, altitude, action, reason) ==
  [lat |-> lat, lng |-> lng, altitude |-> altitude, action |-> action,
   reason |-> reason]

_nodes_to_waypoints(nodes) ==
  [i \in 1..Len(nodes) |->
     LET alt == nodes[i][3]
     IN  IF i = 1
         THEN Waypoint(nodes[i][1], nodes[i][2], alt, "start", "departure_point")
         ELSE IF i = Len(nodes)
         THEN Waypoint(nodes[i][1], nodes[i][2], alt, "end", "destination")
         ELSE IF nodes[i - 1][3] # alt
         THEN Waypoint(nodes[i][1], nodes[i][2], alt,
                       IF alt > nodes[i - 1][3] THEN "ascend" ELSE "descend",
                       "altitude_change")
         ELSE Waypoint(nodes[i][1], nodes[i][2], alt, "navigate", "none")]

_direct_route(start, end, altitude) ==
  << Waypoint(start[1], start[2], altitude, "start", "departure_point"),
     Waypoint(end[1], end[2], altitude, "end", "destination") >>

\* geometry.intersects(LineString([a, b])): the segment and the rectangle
\* overlap in both coordinates and the corners are not all strictly on one
\* side of the line through a and b.
Corners(g) ==
  { <<g.lat_min, g.lng_min>>, <<g.lat_min, g.lng_max>>,
    <<g.lat_max, g.lng_min>>, <<g.lat_max, g.lng_max>> }
Side(a, b, c) == (b[1] - a[1]) * (c[2] - a[2]) - (b[2] - a[2]) * (c[1] - a[1])
Intersects(g, a, b) ==
  /\ Max2(a[1], b[1]) >= g.lat_min /\ Min2(a[1], b[1]) <= g.lat_max
  /\ Max2(a[2], b[2]) >= g.lng_min /\ Min2(a[2], b[2]) <= g.lng_max
  /\ ~(\A c \in Corners(g) : Side(a, b, c) > 0)
  /\ ~(\A c \in Corners(g) : Side(a, b, c) < 0)

\* The avoid waypoint of _fallback_route_with_avoidance for one coordinate:
\* mid + (centroid - mid) / abs(centroid - mid + 0.001) * offset_distance,
\* rounded towards mid to the unit.
AvoidDivisor(centroid, mid) == Abs(centroid - mid + 10)
AvoidCoordinate(centroid, mid) ==
  LET scaled == Abs(centroid - mid) * offset_distance
      quotient == scaled \div AvoidDivisor(centroid, mid)
  IN  IF centroid < mid THEN mid - quotient ELSE mid + quotient

Centroid(g) == <<(g.lat_min + g.lat_max) \div 2, (g.lng_min + g.lng_max) \div 2>>
MidPoint(start, end) == <<(start[1] + end[1]) \div 2, (start[2] + end[2]) \div 2>>

\* The obstacles whose boundary the direct line meets, in list order.
RECURSIVE Intersected(_, _, _)
Intersected(obstacles, start, end) ==
  IF obstacles = <<>> THEN <<>>
  ELSE LET rest == Intersected(Tail(obstacles), start, end)
       IN  IF Intersects(Head(obstacles).geometry, start, end)
           THEN <<Head(obstacles)>> \o rest ELSE rest

\* The division of the avoid waypoint is by zero for some intersected obstacle.
FallbackDividesByZero(start, end, obstacles) ==
  LET hit == Intersected(obstacles, start, end)
      mid == MidPoint(start, end)
  IN  \E i \in 1..Len(hit) :
        \/ AvoidDivisor(Centroid(hit[i].geometry)[1], mid[1]) = 0
        \/ AvoidDivisor(Centroid(hit[i].geometry)[2], mid[2]) = 0

_fallback_route_with_avoidance(start, end, altitude, obstacles) ==
  LET hit == Intersected(obstacles, start, end)
      mid == MidPoint(start, end)
  IN  <<Waypoint(start[1], start[2], altitude, "start", "departure_point")>>
      \o [i \in 1..Len(hit) |->
            Waypoint(AvoidCoordinate(Centroid(hit[i].geometry)[1], mid[1]),
                     AvoidCoordinate(Centroid(hit[i].geometry)[2], mid[2]),
                     altitude, "avoid", "avoiding_" \o hit[i].type)]
      \o <<Waypoint(end[1], end[2], altitude, "end", "destination")>>

\* _apply_terrain_following, the terrain elevation being 0.0 everywhere.
_apply_terrain_following(wps) ==
  [i \in 1..Len(wps) |->
     IF wps[i].altitude < 0 + min_terrain_clearance
     THEN [wps[i] EXCEPT !.altitude = 0 + min_terrain_clearance,
                               !.reason = @ \o "_terrain_adjusted"]
     ELSE wps[i]]

\* _smooth_route: keep the first and the last waypoint and, of the others,
\* those whose action is avoid, ascend, descend or hover.
RECURSIVE Essential(_)
Essential(middle) ==
  IF middle = <<>> THEN <<>>
  ELSE IF Head(middle).action \in {"avoid", "ascend", "descend", "hover"}
       THEN <<Head(middle)>> \o Essential(Tail(middle))
       ELSE Essential(Tail(middle))
_smooth_route(wps) ==
  IF Len(wps) <= 2 THEN wps
  ELSE <<wps[1]>>
       \o Essential(SubSeq(wps, 2, Len(wps) - 1))
       \o <<wps[Len(wps)]>>

\* _validate_altitude: the altitude clamped to min_altitude and to the call's
\* max_altitude, or the optimizer's when the call gives none.
_validate_altitude(altitude, max_altitude_arg) ==
  LET max_alt == IF max_altitude_arg = NoAltitude THEN max_altitude
                 ELSE max_altitude_arg
  IN  IF altitude < min_altitude THEN min_altitude
      ELSE IF altitude > max_alt THEN max_alt
      ELSE altitude

\* The points of the final path: Point(wp.lng, wp.lat, wp.altitude).
PathOf(wps) ==
  [i \in 1..Len(wps) |->
     <<wps[i].lat, wps[i].lng, wps[i].altitude>>]

\* _get_obstacles.  The no-fly zone queryset is evaluated by the for loop and
\* raises when only() names a field the model does not have; only ImportError
\* is caught.  The static zones are not loaded (_circle_to_polygon uses cos,
\* which static_zones.py does not import, and the error is caught), and
\* _get_weather_hazards returns [].
RECURSIVE ZoneObstacles(_, _)
ZoneObstacles(table, ids) ==
  IF ids = {} THEN <<>>
  ELSE LET z == CHOOSE i \in ids : \A j \in ids : i <= j
           rest == ZoneObstacles(table, ids \ {z})
       IN  IF table[z].exists /\ table[z].is_active
           THEN <<NoFlyObstacle(table[z].boundary, max_altitude)>> \o rest
           ELSE rest
_get_obstacles(table, avoids_no_fly, avoids_weather) ==
  IF avoids_no_fly
  THEN IF OnlyAccepts(ObstacleQueryFields)
       THEN [raised |-> FALSE, obstacles |-> ZoneObstacles(table, ZoneIds)]
       ELSE [raised |-> TRUE, obstacles |-> <<>>]
  ELSE [raised |-> FALSE, obstacles |-> <<>>]

PriorityNode(priority, node, g_cost) ==
  [priority |-> priority, node |-> node, g_cost |-> g_cost]

\* _astar_route from its search on (lines 282-287), run on an obstacle list.
StartSearch(key, priority, altitude, obstacles) ==
  [NoSearch EXCEPT
     !.pc = "searching", !.key = key, !.priority = priority,
     !.altitude = altitude, !.obstacles = obstacles,
     !.open_set = {PriorityNode(0, <<key.start[1], key.start[2], altitude>>, 0)},
     !.g_score = [n \in {<<key.start[1], key.start[2], altitude>>} |-> 0],
     !.started_at = zone_writes]

astar_search_begin(start, end, altitude, priority, obstacles) ==
  /\ search.pc = "idle"
  /\ route_calls < MaxRouteCalls
  /\ route_calls' = route_calls + 1
  /\ search' = StartSearch(_get_cache_key(start, end, altitude, "astar", TRUE, TRUE),
                           priority, _validate_altitude(altitude, NoAltitude), obstacles)
  /\ UNCHANGED <<drones, dispatch_vars, telemetry_vars, tracking_vars, zones, route_cache,
                 zone_writes,
                 predictor_vars>>

\* optimize_route up to the search: the cache lookup (_get_from_cache returns
\* None when the cache raises), the altitude check, the choice of the method
\* and, for astar, the obstacles.
optimize_route_call(start, end, altitude, max_altitude_arg, method, avoids_no_fly, priority) ==
  /\ search.pc = "idle"
  /\ route_calls < MaxRouteCalls
  /\ route_calls' = route_calls + 1
  /\ LET key == _get_cache_key(start, end, altitude, method, avoids_no_fly, TRUE)
         loaded == _get_obstacles(zones, avoids_no_fly, TRUE)
     IN  \E cache_works \in BOOLEAN :
           IF cache_works /\ route_cache[key].found
           THEN search' = [NoSearch EXCEPT !.pc = "returned", !.key = key,
                             !.max_altitude = max_altitude_arg,
                             !.priority = priority, !.via = "cache",
                             !.result = route_cache[key], !.from_cache = TRUE,
                             !.started_at = zone_writes,
                             !.returned_at = zone_writes]
           ELSE IF method = "direct"
           THEN search' = [NoSearch EXCEPT !.pc = "post", !.key = key,
                             !.max_altitude = max_altitude_arg,
                             !.priority = priority,
                             !.altitude = _validate_altitude(altitude, max_altitude_arg),
                             !.waypoints = _direct_route(start, end,
                                _validate_altitude(altitude, max_altitude_arg)),
                             !.via = "direct", !.started_at = zone_writes]
           ELSE IF loaded.raised
           THEN search' = [NoSearch EXCEPT !.pc = "raised", !.key = key,
                             !.max_altitude = max_altitude_arg,
                             !.priority = priority, !.started_at = zone_writes]
           ELSE search' = [StartSearch(key, priority,
                                       _validate_altitude(altitude, max_altitude_arg),
                                       loaded.obstacles)
                             EXCEPT !.max_altitude = max_altitude_arg]
  /\ UNCHANGED <<drones, dispatch_vars, telemetry_vars, tracking_vars, zones, route_cache,
                 zone_writes,
                 predictor_vars>>

\* One iteration of the while loop of _astar_route, or what follows the loop.
\* heapq pops an entry of least priority; entries compare by priority alone.
astar_step ==
  /\ search.pc = "searching"
  /\ LET start == search.key.start
         end == search.key.end
         start_node == <<start[1], start[2], search.altitude>>
         end_node == <<end[1], end[2], search.altitude>>
     IN  IF search.open_set = {} \/ search.nodes_explored >= max_iterations
         THEN \* A* failed: _fallback_route_with_avoidance
              IF FallbackDividesByZero(start, end, search.obstacles)
              THEN search' = [search EXCEPT !.pc = "raised"]
              ELSE search' = [search EXCEPT !.pc = "post", !.via = "fallback",
                                !.waypoints = _fallback_route_with_avoidance(
                                   start, end, search.altitude, search.obstacles)]
         ELSE \E current \in search.open_set :
                /\ \A other \in search.open_set : current.priority <= other.priority
                /\ IF _is_goal(current.node, end_node)
                   THEN LET path_nodes == _reconstruct_path(search.came_from,
                                                            current.node, start_node)
                        IN  IF Len(path_nodes) < 2
                            THEN \* a LineString needs two points
                                 search' = [search EXCEPT !.pc = "raised",
                                   !.nodes_explored = @ + 1]
                            ELSE search' = [search EXCEPT !.pc = "post",
                                   !.via = "astar", !.nodes_explored = @ + 1,
                                   !.open_set = @ \ {current},
                                   !.waypoints = _nodes_to_waypoints(path_nodes)]
                   ELSE LET g == search.g_score
                            tentative_g(n) ==
                              g[current.node] + _edge_cost(current.node, n, search.priority)
                            better ==
                              { n \in _get_neighbors(current.node, end_node, search.priority) :
                                  /\ InWindow(n)
                                  /\ ~_is_in_obstacle(n, search.obstacles)
                                  /\ (n \notin DOMAIN g \/ tentative_g(n) < g[n]) }
                        IN  search' = [search EXCEPT
                              !.nodes_explored = @ + 1,
                              !.came_from = [n \in DOMAIN @ \cup better |->
                                               IF n \in better THEN current.node ELSE @[n]],
                              !.g_score = [n \in DOMAIN @ \cup better |->
                                             IF n \in better THEN tentative_g(n) ELSE @[n]],
                              !.open_set = (@ \ {current}) \cup
                                 { PriorityNode(tentative_g(n) + _heuristic(n, end_node),
                                                n, tentative_g(n)) : n \in better }]
  /\ UNCHANGED <<drones, dispatch_vars, telemetry_vars, tracking_vars, zones, route_cache,
                 zone_writes, route_calls,
                 predictor_vars>>

\* optimize_route after the method has produced its waypoints: the metrics
\* (optimization_method is the method argument), terrain following, the
\* final smoothing, the final path and the cache save (_save_to_cache
\* swallows the error when the cache raises).
optimize_route_finish ==
  /\ search.pc = "post"
  /\ LET final == _smooth_route(_apply_terrain_following(search.waypoints))
         result == [found |-> TRUE, final_path |-> PathOf(final),
                    optimization_method |-> search.key.method,
                    waypoints |-> final, computed_at |-> search.started_at]
     IN  /\ search' = [search EXCEPT !.pc = "returned", !.result = result,
                                     !.returned_at = zone_writes]
         /\ \E cache_works \in BOOLEAN :
              route_cache' = IF cache_works
                             THEN [route_cache EXCEPT ![search.key] = result]
                             ELSE route_cache
  /\ UNCHANGED <<drones, dispatch_vars, telemetry_vars, tracking_vars, zones, zone_writes,
                 route_calls,
                 predictor_vars>>

\* The caller has the result or the exception; the optimizer is free again.
optimize_route_return ==
  /\ search.pc \in {"returned", "raised"}
  /\ search' = NoSearch
  /\ UNCHANGED <<drones, dispatch_vars, telemetry_vars, tracking_vars, zones, route_cache,
                 zone_writes, route_calls,
                 predictor_vars>>

\* NoFlyZoneViewSet (a ModelViewSet): POST, PUT/PATCH and DELETE write the
\* row and nothing else.
NoFlyZoneViewSet_create(z, boundary) ==
  /\ zone_writes < MaxZoneWrites
  /\ ~zones[z].exists
  /\ zones' = [zones EXCEPT ![z] = [exists |-> TRUE, is_active |-> TRUE,
                                    boundary |-> boundary]]
  /\ zone_writes' = zone_writes + 1
  /\ UNCHANGED <<drones, dispatch_vars, telemetry_vars, tracking_vars, route_cache,
                 search,
                 route_calls,
                 predictor_vars>>

NoFlyZoneViewSet_update(z, is_active, boundary) ==
  /\ zone_writes < MaxZoneWrites
  /\ zones[z].exists
  /\ zones' = [zones EXCEPT ![z].is_active = is_active, ![z].boundary = boundary]
  /\ zone_writes' = zone_writes + 1
  /\ UNCHANGED <<drones, dispatch_vars, telemetry_vars, tracking_vars, route_cache,
                 search,
                 route_calls,
                 predictor_vars>>

NoFlyZoneViewSet_destroy(z) ==
  /\ zone_writes < MaxZoneWrites
  /\ zones[z].exists
  /\ zones' = [zones EXCEPT ![z] = NoZone]
  /\ zone_writes' = zone_writes + 1
  /\ UNCHANGED <<drones, dispatch_vars, telemetry_vars, tracking_vars, route_cache,
                 search,
                 route_calls,
                 predictor_vars>>

\* clear_cache: cache.delete_pattern("route_*"), the error swallowed when the
\* cache raises.
clear_cache ==
  /\ \E cache_works \in BOOLEAN :
       route_cache' = IF cache_works THEN [k \in CacheKeys |-> NoEntry]
                      ELSE route_cache
  /\ UNCHANGED <<drones, dispatch_vars, telemetry_vars, tracking_vars, zones, search,
                 zone_writes, route_calls,
                 predictor_vars>>

\* An entry reaches its timeout of 3600 seconds.
route_cache_expire(k) ==
  /\ route_cache[k].found
  /\ route_cache' = [route_cache EXCEPT ![k] = NoEntry]
  /\ UNCHANGED <<drones, dispatch_vars, telemetry_vars, tracking_vars, zones, search,
                 zone_writes, route_calls,
                 predictor_vars>>

PlannerNext ==
  \/ \E start \in Starts, end \in Goals, altitude \in Altitudes,
        max_altitude_arg \in MaxAltitudes, method \in Methods,
        avoids_no_fly \in BOOLEAN, priority \in Priorities :
       optimize_route_call(start, end, altitude, max_altitude_arg, method,
                           avoids_no_fly, priority)
  \/ astar_step
  \/ optimize_route_finish
  \/ optimize_route_return
  \/ \E z \in ZoneIds, boundary \in Boundaries : NoFlyZoneViewSet_create(z, boundary)
  \/ \E z \in ZoneIds, is_active \in BOOLEAN, boundary \in Boundaries :
       NoFlyZoneViewSet_update(z, is_active, boundary)
  \/ \E z \in ZoneIds : NoFlyZoneViewSet_destroy(z)
  \/ clear_cache
  \/ \E k \in CacheKeys : route_cache_expire(k)

PlannerSpec == Init /\ [][PlannerNext]_vars

SearchNext ==
  \/ \E start \in Starts, end \in Goals, altitude \in Altitudes,
        priority \in Priorities, obstacles \in ObstacleLists :
       astar_search_begin(start, end, altitude, priority, obstacles)
  \/ astar_step
  \/ optimize_route_finish
  \/ optimize_route_return

SearchSpec == Init /\ [][SearchNext]_vars

\* ============================================================ properties
TerminalStatuses == {"delivered", "failed", "cancelled"}

\* The transitions the order state machine permits: one step along
\* pending -> assigned -> in_transit -> delivering -> delivered, or any
\* non-terminal status to cancelled or failed.
Chain == <<"pending", "assigned", "in_transit", "delivering", "delivered">>
Rank(s) == CHOOSE i \in 1..Len(Chain) : Chain[i] = s
OnChain(s) == \E i \in 1..Len(Chain) : Chain[i] = s
Permitted(a, b) ==
  \/ OnChain(a) /\ OnChain(b) /\ Rank(b) = Rank(a) + 1
  \/ a \notin TerminalStatuses /\ b \in {"cancelled", "failed"}

\* A status change that moves forward along the chain, or ends a non-terminal
\* order in cancelled or failed.
Forward(a, b) ==
  \/ OnChain(a) /\ OnChain(b) /\ Rank(a) < Rank(b)
  \/ a \notin TerminalStatuses /\ b \in {"cancelled", "failed"}

RowsWith(o, status) == SelectSeq(history[o], LAMBDA row : row.status = status)

\* The step is a step of task t after it loaded its rows.
StepOf(t, kind) ==
  /\ tasks[t].kind = kind
  /\ tasks[t].pc \notin {"none", "queued", "done", "failed"}
  /\ tasks'[t] # tasks[t]

\* The step leaves order o, the drones and the history alone and sends no task.
NothingDone(o) ==
  /\ orders'[o] = orders[o]
  /\ drones' = drones
  /\ history'[o] = history[o]
  /\ \A u \in 1..MaxTasks : tasks[u].kind = "none" => tasks'[u].kind = "none"

\* No update_status request and no task is in the middle of its writes.
Quiescent ==
  /\ \A r \in 1..MaxStatusReqs : reqs[r].pc \in {"none", "done"}
  /\ Running = {}

\* C1: an update_status request for another status, which the order's current
\* status does not permit, never gets past writing the order (status, timestamps) to writing
\* a history row, and is answered with a conflict.
C1_IllegalTransitionRejected ==
  \A r \in 1..MaxStatusReqs :
    (/\ reqs[r].pc # "none"
     /\ reqs[r].new_status \in OrderStatuses
     /\ reqs[r].new_status # reqs[r].snap.status
     /\ ~Permitted(reqs[r].snap.status, reqs[r].new_status))
    => /\ reqs[r].pc # "u_history"
       /\ reqs[r].pc = "done" => reqs[r].resp = "conflict"

\* C2: every change of an order's status moves forward (or to cancelled or
\* failed from a non-terminal status), consecutive history rows obey the same
\* rule, and a terminal order never changes status.
C2_StatusMonotone ==
  [][\A o \in Orders :
       /\ orders'[o].status # orders[o].status
            => Forward(orders[o].status, orders'[o].status)
       /\ \A i \in 2..Len(history'[o]) :
            Forward(history'[o][i - 1].status, history'[o][i].status)]_vars

\* C3: operations on one order are serialized.  Run one after another, each
\* operation that sets the status appends the row of that status right after,
\* and none clears the drone an assignment stored; so once all operations have
\* finished (the database never having failed), the order's status is that of
\* its latest history row and the order carries a drone if an assignment wrote one.
C3_SerialOutcome ==
  (Quiescent /\ outages = 0) =>
    \A o \in Orders :
      /\ history[o] # <<>> => history[o][Len(history[o])].status = orders[o].status
      /\ (\E t \in 1..MaxTasks : tasks[t].kind = "assign" /\ tasks[t].order = o
                                   /\ tasks[t].pc = "done")
           => orders[o].drone # NoDrone

\* C4: with the database up throughout, a run of assign_drone_to_delivery(o, d)
\* that finds order o already assigned to drone d changes nothing: the order
\* row and its history stay as the first run left them.
C4_AssignIdempotent ==
  [][\A t \in 1..MaxTasks :
       (/\ StepOf(t, "assign")
        /\ outages = 0
        /\ tasks[t].snap.drone = tasks[t].drone
        /\ tasks[t].snap.status # "pending")
       => /\ orders'[tasks[t].order] = orders[tasks[t].order]
          /\ history'[tasks[t].order] = history[tasks[t].order]]_vars

\* C5: a run of assign_drone_to_delivery(o, d2) that finds order o assigned to
\* another drone and no longer pending is refused: order, drones and history
\* stay as they are and no optimize_route_and_predict_eta task is sent.
C5_ReassignRefused ==
  [][\A t \in 1..MaxTasks :
       (/\ StepOf(t, "assign")
        /\ tasks[t].snap.drone \notin {NoDrone, tasks[t].drone}
        /\ tasks[t].snap.status # "pending")
       => NothingDone(tasks[t].order)]_vars

\* C6: a run of assign_drone_to_delivery that finds its drone not idle, not
\* active or under 20 % battery changes neither the order nor the drone and
\* does not start the pipeline.
C6_OnlyEligibleDrone ==
  [][\A t \in 1..MaxTasks :
       (/\ StepOf(t, "assign")
        /\ ~(/\ tasks[t].snap.drone_status = "idle"
             /\ tasks[t].snap.drone_is_active
             /\ tasks[t].snap.drone_battery_level >= MinBattery))
       => NothingDone(tasks[t].order)]_vars

\* C7: no drone is the drone of two orders that are assigned, in_transit or
\* delivering.
C7_OneActiveOrderPerDrone ==
  \A d \in Drones :
    Cardinality({o \in Orders : /\ orders[o].drone = d
                                /\ orders[o].status \in
                                     {"assigned", "in_transit", "delivering"}}) <= 1

\* C8: the history rows of an order are its status transitions, one row each:
\* an order starts pending, so every row carries a status other than the one
\* before it.
C8_OneRowPerTransition ==
  \A o \in Orders : \A i \in 1..Len(history[o]) :
    history[o][i].status # (IF i = 1 THEN "pending" ELSE history[o][i - 1].status)

\* C9: a pipeline task that failed part-way and then succeeded on a retry leaves
\* what a first-attempt success leaves: the order in_transit with exactly one
\* in_transit history row (and, for the route task, a route).
C9_RetryLeavesOneRow ==
  \A t \in 1..MaxTasks :
    (/\ tasks[t].pc = "done"
     /\ tasks[t].retries > 0
     /\ \A r \in 1..MaxStatusReqs : reqs[r].pc = "none"
     /\ \A u \in 1..MaxTasks : tasks[u].kind = "assign" => u = t \/ tasks[u].order # tasks[t].order)
    => /\ orders[tasks[t].order].status = "in_transit"
       /\ Len(RowsWith(tasks[t].order, "in_transit")) = 1
       /\ tasks[t].kind = "optimize" => routes[tasks[t].order].exists

\* C10: a pipeline task is executed at most max_retries + 1 = 4 times, every
\* retry is scheduled with a countdown of 60 s, and a task that has raised
\* for good is never scheduled again.
C10_BoundedRetries ==
  [][\A t \in 1..MaxTasks :
       /\ tasks'[t].runs <= max_retries + 1
       /\ tasks'[t].retries > 0 => tasks'[t].countdown = retry_countdown
       /\ tasks[t].pc = "failed" => tasks'[t] = tasks[t]]_vars

\* A task has failed on all four of its executions.
C10_Witness ==
  \E t \in 1..MaxTasks : tasks[t].pc = "failed" /\ tasks[t].runs = max_retries + 1

\* C11: once a pipeline task has exhausted its retries (the database having
\* been up throughout and no update_status request having been made), its order
\* is in status failed, has a failed history row and the customer has a failure
\* notification.
C11_ExhaustedOrderFailed ==
  \A t \in 1..MaxTasks :
    (/\ tasks[t].pc = "failed" /\ tasks[t].runs = max_retries + 1
     /\ outages = 0
     /\ \A r \in 1..MaxStatusReqs : reqs[r].pc = "none")
    => /\ orders[tasks[t].order].status = "failed"
       /\ Len(RowsWith(tasks[t].order, "failed")) = 1
       /\ \E i \in 1..Len(notifications[tasks[t].order]) :
            notifications[tasks[t].order][i] = "delivery_failed"

\* C12: with the database up throughout and no update_status request touching
\* the order, optimize_route_and_predict_eta for an order that carries a drone
\* and its locations does not exhaust its retries.
C12_OptimizeCompletes ==
  \A t \in 1..MaxTasks :
    (/\ tasks[t].kind = "optimize"
     /\ outages = 0
     /\ \A r \in 1..MaxStatusReqs : reqs[r].pc = "none"
     /\ orders[tasks[t].order].drone # NoDrone
     /\ orders[tasks[t].order].pickup_location)
    => tasks[t].pc # "failed"

\* The waypoint rows of order o's route are all the waypoints of one run.
CompleteWaypoints(wps) ==
  {w.sequence : w \in wps} = 1..Len(FallbackWaypoints)

\* C13: once an order's route is stored with all its waypoints, every later
\* database state shows a route with a complete waypoint set: a re-run never
\* exposes a route with none or only some of its waypoints.
C13_NoPartialWaypoints ==
  [][\A o \in Orders :
       (routes[o].exists /\ CompleteWaypoints(waypoints[o]))
       => CompleteWaypoints(waypoints'[o])]_vars

\* No run of optimize_route_and_predict_eta is writing the route of order o.
NoRouteWriter(o) ==
  \A t \in 1..MaxTasks :
    ~(/\ tasks[t].kind = "optimize" /\ tasks[t].order = o
      /\ tasks[t].pc \in {"o_wp_delete", "o_wp_create"})

\* Sequence numbers 1..n, the first waypoint a start and the last an end.
WellFormedWaypoints(wps) ==
  LET n == Cardinality(wps)
  IN /\ {w.sequence : w \in wps} = 1..n
     /\ \A w \in wps : /\ w.sequence = 1 => w.action = "start"
                       /\ w.sequence = n => w.action = "end"

\* C14: whenever no run is writing the route of an order, the stored waypoints
\* of its route are numbered 1..n, starting with a start and ending with an end.
C14_WaypointSequence ==
  \A o \in Orders :
    (routes[o].exists /\ NoRouteWriter(o)) => WellFormedWaypoints(waypoints[o])

\* C15: a delivered order has a delivered_at, a drone and a route.
C15_DeliveredComplete ==
  \A o \in Orders :
    orders[o].status = "delivered"
    => /\ orders[o].delivered_at # NoTime
       /\ orders[o].drone # NoDrone
       /\ routes[o].exists

\* ------------------------------------------------- telemetry properties
\* C16: every stored drone has a battery level from 0 to 100.
C16_BatteryInRange ==
  \A d \in Drones : 0 <= drones[d].battery_level /\ drones[d].battery_level <= 100

\* The task of payload i has ended, by returning or by raising.
Processed(i) == ingests[i].pc \in {"done", "failed"}

\* The events group g received that carry the timestamp of payload i's row.
EventsOf(g, i) == SelectSeq(group_sends[g], LAMBDA e : e.timestamp = IngestStamp(i))

\* C19: once the task of an accepted payload (one that carries a position) has
\* ended, the payload has gone through every ingest step: one telemetry_data
\* row, the drone's last_heartbeat set, the drone's status stream online with a
\* heartbeat, and one event in drone_updates and one in the drone's own group.
C19_AllIngestSteps ==
  \A i \in 1..MaxIngests :
    (Processed(i) /\ ingests[i].latlng # NoPosition) =>
      LET d == ingests[i].drone
      IN /\ Len(SelectSeq(telemetry_data[d],
                          LAMBDA row : row.timestamp = IngestStamp(i))) = 1
         /\ drones[d].last_heartbeat # NoTime
         /\ status_streams[d].exists /\ status_streams[d].is_online
         /\ status_streams[d].last_heartbeat # NoTime
         /\ Len(EventsOf("drone_updates", i)) = 1
         /\ Len(EventsOf(DroneGroup(d), i)) = 1

\* C20: the task of a payload with null latitude/longitude (and is_in_flight
\* false) never changes the drone's current_position, and when it ends the
\* drone has a last_heartbeat.
C20_NullPositionHeartbeat ==
  [][\A i \in 1..MaxIngests :
       (/\ ingests[i].pc \notin {"none", "queued"}
        /\ ingests'[i] # ingests[i]
        /\ ingests[i].latlng = NoPosition
        /\ ~ingests[i].is_in_flight)
       => /\ drones'[ingests[i].drone].current_position
               = drones[ingests[i].drone].current_position
          /\ Processed(i)' => drones'[ingests[i].drone].last_heartbeat # NoTime]_vars

\* ---- C17
\* The points with whole coordinates on the segment from a to b.
PointsOn(a, b) ==
  { p \in (Min2(a[1], b[1])..Max2(a[1], b[1])) \X (Min2(a[2], b[2])..Max2(a[2], b[2])) :
      Side(a, b, p) = 0 }

\* The leg from vertex a to vertex b of a path passes through the obstacle,
\* buffered by safety_buffer, at altitudes inside its band.
LegCrosses(a, b, obstacle) ==
  /\ InBand(obstacle, a[3]) /\ InBand(obstacle, b[3])
  /\ \E p \in PointsOn(a, b) : BufferedContains(obstacle.geometry, p[1], p[2])

PathCrosses(path, obstacles) ==
  \E i \in 1..Len(obstacles) :
    \/ \E v \in 1..Len(path) : _is_in_obstacle(path[v], <<obstacles[i]>>)
    \/ \E v \in 1..(Len(path) - 1) : LegCrosses(path[v], path[v + 1], obstacles[i])

C18_NoStaleCachedRoute ==
  (search.pc = "returned" /\ search.from_cache)
    => search.result.computed_at = search.returned_at

\* --------------------------------------------------- tracking properties
\* The telemetry messages of payload i in a sequence of events or frames.
TelemetryOf(events, i) ==
  SelectSeq(events, LAMBDA e : e.type \in {"telemetry_data", "telemetry"}
                               /\ e.timestamp = IngestStamp(i))

Ended == {"done", "failed"}

\* C21: when the task of an accepted payload for drone d ends, every connection
\* that is subscribed to drone_{d} at that moment has exactly one telemetry
\* message of that payload, on its channel or already sent to its client.
C21_EverySubscriberGetsOne ==
  [][\A i \in 1..MaxIngests, c \in Conns :
       ( /\ ingests[i].pc \notin Ended
         /\ ingests'[i].pc \in Ended
         /\ c \in group_members[DroneGroup(ingests[i].drone)] )
       => Len(TelemetryOf(channel_queue'[c], i)) + Len(TelemetryOf(client_inbox'[c], i)) = 1]_vars

\* The place of payload i's entry in a sequence of rows or events.
PlaceOf(entries, i) ==
  CHOOSE k \in 1..Len(entries) : entries[k].timestamp = IngestStamp(i)

\* C22: of two payloads of one drone whose tasks have both completed, the one
\* accepted first has its telemetry_data row and its two broadcasts before
\* those of the other, and the drone's heartbeat is that of the later payload.
C22_PerDroneOrder ==
  \A i \in 1..MaxIngests, j \in 1..MaxIngests :
    ( /\ i < j
      /\ ingests[i].pc = "done" /\ ingests[j].pc = "done"
      /\ ingests[i].drone = ingests[j].drone )
    => LET d == ingests[i].drone
       IN /\ PlaceOf(telemetry_data[d], i) < PlaceOf(telemetry_data[d], j)
          /\ PlaceOf(group_sends["drone_updates"], i) < PlaceOf(group_sends["drone_updates"], j)
          /\ PlaceOf(group_sends[DroneGroup(d)], i) < PlaceOf(group_sends[DroneGroup(d)], j)
          /\ drones[d].last_heartbeat = IngestStamp(j)

\* C23: a connection whose user is not authenticated is never accepted, is a
\* member of no group, and has no event on its channel and no frame sent to
\* its client.
C23_AnonymousGetsNothing ==
  \A c \in Conns :
    sockets[c].user = Anonymous
    => /\ sockets[c].state # "open"
       /\ \A g \in TrackingGroups : c \notin group_members[g]
       /\ channel_queue[c] = <<>>
       /\ client_inbox[c] = <<>>

\* An unauthenticated connection was turned away, and afterwards a payload was
\* broadcast that an accepted connection received.
C23_Witness ==
  \E c \in Conns, other \in Conns :
    /\ sockets[c].user = Anonymous
    /\ sockets[c].state \in {"rejected", "closed"}
    /\ sockets[other].user # Anonymous
    /\ client_inbox[other] # <<>>

\* C28: when disconnect has run for a connection, the connection is a member
\* of no group.
C28_DisconnectedInNoGroup ==
  [][\A c \in Conns :
       DroneTrackingConsumer_disconnect(c)
       => \A g \in TrackingGroups : c \notin group_members'[g]]_vars

\* ------------------------------------------------------ orders API properties
\* C24: no step modifies or removes an order_status_history row: the rows an
\* order has before a step are the first rows it has after it.
C24_HistoryAppendOnly ==
  [][\A o \in Orders :
       /\ Len(history'[o]) >= Len(history[o])
       /\ SubSeq(history'[o], 1, Len(history[o])) = history[o]]_vars

\* ---------------------------------------------------- predictor properties
\* C27: two consecutive automatic retrains are at least 100 added historical
\* deliveries and at least 7 days apart.
C27_RetrainsApart ==
  \A k \in 2..Len(eta_predictor.retrains) :
    LET last == eta_predictor.retrains[k - 1]
        this == eta_predictor.retrains[k]
    IN /\ this.samples - last.samples >= auto_retrain_samples
       /\ this.day - last.day >= auto_retrain_days

C26_ObstaclesAreEffectiveZones ==
  ( /\ search.pc # "idle"
    /\ ~search.from_cache
    /\ search.key.method = "astar"
    /\ search.key.avoids_no_fly
    /\ search.started_at = zone_writes
    /\ \E z \in ZoneIds : zones[z].exists /\ zones[z].is_active )
  => /\ search.pc # "raised"
     /\ search.obstacles = ZoneObstacles(zones, ZoneIds)

\* What optimize_route computes for a direct call when it does not find the
\* key in the cache.
FreshDirect(key, max_altitude_arg) ==
  _smooth_route(_apply_terrain_following(
    _direct_route(key.start, key.end, _validate_altitude(key.altitude, max_altitude_arg))))

\* C29: a direct call answered from the cache returns the waypoints that the
\* computation without the cache gives for the call's arguments.
C29_CacheHitEqualsFresh ==
  (search.pc = "returned" /\ search.from_cache /\ search.key.method = "direct")
    => search.result.waypoints = FreshDirect(search.key, search.max_altitude)

\* --------------------------------------------------- drone release property
\* A task is queued, running or waiting for its retry, or a request is being
\* served.
WorkPending ==
  \/ \E t \in 1..MaxTasks : tasks[t].pc \notin {"none", "done", "failed"}
  \/ \E r \in 1..MaxStatusReqs : reqs[r].pc \notin {"none", "done"}

\* C30: once an order is in a terminal status and the pipeline has no task and
\* no request left to run (the database never having been down), the order's
\* drone is no longer in status delivering.
C30_TerminalOrderReleasesDrone ==
  \A o \in Orders :
    ( /\ ~WorkPending
      /\ outages = 0
      /\ orders[o].status \in TerminalStatuses
      /\ orders[o].drone # NoDrone )
    => drones[orders[o].drone].status # "delivering"
====
